---- MODULE Spec2Model ----
(***************************************************************************)
(* Model of scripts/validate_toy_dataset.py: the line-delimited record     *)
(* loader (load_jsonl), the relevance table loader (load_qrels), the key   *)
(* sampler (sample_keys) and the orchestrator (main) with its consistency  *)
(* check and report.                                                       *)
(*                                                                         *)
(* Python values are tagged records [t, s, n]; a JSON object is a function *)
(* from field names to values; a Python dict that is iterated is kept with *)
(* its insertion order as [keys |-> sequence, map |-> function].           *)
(***************************************************************************)
EXTENDS Integers, Sequences, FiniteSets, TLC

VARIABLES
    fs,               \* the dataset directory: path -> file content
    split,            \* the --split argument of main
    pc,               \* position in the running function
    ret,              \* what the last loader call returned or raised
    loaderCalls,      \* number of loader invocations so far
    corpus,           \* main's local corpus
    queries,          \* main's local queries
    qrels,            \* main's local qrels
    docid,            \* the sampled document ids (a list of 0 or 1 ids)
    qid,              \* the sampled query ids (a list of 0 or 1 ids)
    missing_queries,  \* main's local missing_queries (a list)
    missing_docs,     \* main's local missing_docs (a set)
    out,              \* lines printed to standard output
    err,              \* lines printed to the error stream
    exitCode,         \* the value main returned, "none" while it has not
    raised            \* the exception that escaped main, "none" if none

vars == <<fs, split, pc, ret, loaderCalls, corpus, queries, qrels, docid, qid,
          missing_queries, missing_docs, out, err, exitCode, raised>>

(***************************************************************************)
(* Bounds of the model.                                                    *)
(***************************************************************************)
MaxLines == 2        \* lines of a JSONL file given to load_jsonl alone
MaxRows == 2         \* csv records of a qrels file given to load_qrels alone
MaxCorpusLines == 2  \* lines of corpus.jsonl in a run of main
MaxQueryLines == 2   \* lines of queries.jsonl in a run of main
MaxQrelsRows == 2    \* csv records of qrels/<split>.tsv in a run of main

(***************************************************************************)
(* Python values.                                                          *)
(***************************************************************************)
Str(s) == [t |-> "str", s |-> s, n |-> 0]
Num(n) == [t |-> "num", s |-> "", n |-> n]
None == [t |-> "null", s |-> "", n |-> 0]

\* bool(v): None, "" and 0 are falsy
Truthy(v) ==
    CASE v.t = "str" -> v.s # ""
      [] v.t = "num" -> v.n # 0
      [] OTHER -> FALSE

\* str(v)
PyStr(v) ==
    CASE v.t = "str" -> v.s
      [] v.t = "num" -> ToString(v.n)
      [] OTHER -> "None"

Min(a, b) == IF a < b THEN a ELSE b

\* obj.get(k): the value, None when the key is absent
Get(obj, k) == IF k \in DOMAIN obj THEN obj[k] ELSE None

\* obj.get(k, default)
GetOr(obj, k, default) == IF k \in DOMAIN obj THEN obj[k] ELSE default

\* an insertion-ordered dict
EmptyDict == [keys |-> <<>>, map |-> <<>>]

\* d[k] = v: a new key goes last, an existing key keeps its place
Put(d, k, v) ==
    [keys |-> IF k \in DOMAIN d.map THEN d.keys ELSE Append(d.keys, k),
     map |-> (k :> v) @@ d.map]

\* len(d)
Size(d) == Len(d.keys)

\* a loader's outcome: a returned value or a raised exception
Return(v) == [ok |-> TRUE, val |-> v, exc |-> "none", msg |-> "none", line |-> 0, path |-> "none"]
Raise(exc, msg, line, path) ==
    [ok |-> FALSE, val |-> EmptyDict, exc |-> exc, msg |-> msg, line |-> line, path |-> path]
NoCall == [ok |-> FALSE, val |-> EmptyDict, exc |-> "none", msg |-> "none", line |-> 0, path |-> "none"]

(***************************************************************************)
(* load_jsonl                                                              *)
(***************************************************************************)
id_keys == <<"_id", "id">>
text_keys == <<"text", "contents", "body", "passage", "question", "query">>

SeqRange(s) == {s[i] : i \in 1..Len(s)}

\* a line of a JSONL file: its kind after json.loads and, for an object, the object
\*   "empty"   the empty line          "spaces"  whitespace only
\*   "invalid" not JSON                "scalar"  a JSON number
\*   "obj"     a JSON object
Line(kind, obj) == [kind |-> kind, obj |-> obj]

\* line.strip() is empty
IsBlank(line) == line.kind \in {"empty", "spaces"}

\* for k in id_keys: if k in obj: doc_id = obj[k]; break   (doc_id = None before)
doc_id_of(obj) ==
    IF \E j \in 1..Len(id_keys) : id_keys[j] \in DOMAIN obj
    THEN obj[id_keys[CHOOSE j \in 1..Len(id_keys) :
                  /\ id_keys[j] \in DOMAIN obj
                  /\ \A h \in 1..(j - 1) : id_keys[h] \notin DOMAIN obj]]
    ELSE None

\* variant: every text field pre-populated, None when the source lacks it
build_record_defaulted(obj) ==
    obj @@ [k \in SeqRange(text_keys) |-> Get(obj, k)]

\* data = {k: obj.get(k) for k in text_keys if k in obj}; data.update(obj)
build_record(obj) ==
    obj @@ [k \in (SeqRange(text_keys) \cap DOMAIN obj) |-> Get(obj, k)]

\* the loop of load_jsonl from line i on, items being the dict built so far
RECURSIVE load_jsonl_from(_, _, _, _)
load_jsonl_from(path, file, i, items) ==
    IF i > Len(file) THEN Return(items)
    ELSE LET line == file[i] IN
         IF IsBlank(line) THEN load_jsonl_from(path, file, i + 1, items)
         ELSE IF line.kind = "invalid" THEN Raise("ValueError", "Invalid JSON", i, path)
         \* `k in obj` on a number: a TypeError whose message names no line and no path
         ELSE IF line.kind = "scalar" THEN Raise("TypeError", "not iterable", 0, "none")
         ELSE LET obj == line.obj
                  doc_id == doc_id_of(obj)
              IN IF ~Truthy(doc_id) THEN Raise("ValueError", "No id", i, path)
                 ELSE load_jsonl_from(path, file, i + 1,
                                      Put(items, PyStr(doc_id), build_record(obj)))

load_jsonl(path, file) == load_jsonl_from(path, file, 1, EmptyDict)

(***************************************************************************)
(* load_qrels                                                              *)
(***************************************************************************)
\* a record of csv.reader: its fields and the number of physical lines it spans
\* (1, unless a quoted field holds a line break); the empty line gives no field
Row(cols, nlines) == [cols |-> cols, nlines |-> nlines]

Char(s, i) == SubSeq(s, i, i)
Tail1(s) == SubSeq(s, 2, Len(s))
Front1(s) == SubSeq(s, 1, Len(s) - 1)

\* s.strip()
RECURSIVE LStrip(_)
LStrip(s) == IF Len(s) > 0 /\ Char(s, 1) = " " THEN LStrip(Tail1(s)) ELSE s
RECURSIVE RStrip(_)
RStrip(s) == IF Len(s) > 0 /\ Char(s, Len(s)) = " " THEN RStrip(Front1(s)) ELSE s
Strip(s) == RStrip(LStrip(s))

Digits == <<"0", "1", "2", "3", "4", "5", "6", "7", "8", "9">>
IsDigit(c) == \E d \in 1..Len(Digits) : Digits[d] = c
DigitVal(c) == (CHOOSE d \in 1..Len(Digits) : Digits[d] = c) - 1
AllDigits(s) == \A i \in 1..Len(s) : IsDigit(Char(s, i))
RECURSIVE DigitsVal(_)
DigitsVal(s) == IF Len(s) = 0 THEN 0 ELSE 10 * DigitsVal(Front1(s)) + DigitVal(Char(s, Len(s)))

\* float(s) for a sign, digits and at most one decimal point, and for "nan":
\* the number as sign, whole part and fraction digits
py_float(s) ==
    LET signed == Len(s) > 0 /\ Char(s, 1) \in {"-", "+"}
        neg == Len(s) > 0 /\ Char(s, 1) = "-"
        body == IF signed THEN Tail1(s) ELSE s
        dots == {i \in 1..Len(body) : Char(body, i) = "."}
        dot == IF dots = {} THEN Len(body) + 1 ELSE CHOOSE i \in dots : \A j \in dots : i <= j
        whole == SubSeq(body, 1, dot - 1)
        frac == SubSeq(body, dot + 1, Len(body))
    IN IF body = "nan" THEN [ok |-> TRUE, nan |-> TRUE, neg |-> neg, whole |-> 0, frac |-> ""]
       ELSE IF AllDigits(whole) /\ AllDigits(frac) /\ Len(whole) + Len(frac) > 0
            THEN [ok |-> TRUE, nan |-> FALSE, neg |-> neg, whole |-> DigitsVal(whole), frac |-> frac]
            ELSE [ok |-> FALSE, nan |-> FALSE, neg |-> FALSE, whole |-> 0, frac |-> ""]

\* int(x) of a float: truncation toward zero; int(nan) raises
py_int(x) ==
    IF x.nan THEN [ok |-> FALSE, val |-> 0]
    ELSE [ok |-> TRUE, val |-> IF x.neg THEN 0 - x.whole ELSE x.whole]

\* int(float(score)), any exception caught by the except clause
score_int_of(score) ==
    LET x == py_float(score) IN
    IF x.ok THEN py_int(x) ELSE [ok |-> FALSE, val |-> 0]

\* qrels.setdefault(qid, {})[docid] = score_int
set_score(table, q, d, score) ==
    Put(table, q, Put(IF q \in DOMAIN table.map THEN table.map[q] ELSE EmptyDict, d, score))

\* the loop of load_qrels from the i-th record of the reader on (enumerate(reader, 1))
RECURSIVE load_qrels_from(_, _, _, _)
load_qrels_from(path, file, i, table) ==
    IF i > Len(file) THEN Return(table)
    ELSE LET cols == file[i].cols IN
         IF Len(cols) = 0 THEN load_qrels_from(path, file, i + 1, table)
         ELSE IF Len(cols) < 3 THEN Raise("ValueError", "Invalid qrels line", i, path)
         ELSE LET q == Strip(cols[1])
                  d == Strip(cols[2])
                  score == score_int_of(Strip(cols[3]))
              IN IF ~score.ok THEN Raise("ValueError", "Invalid relevance score", i, path)
                 ELSE load_qrels_from(path, file, i + 1, set_score(table, q, d, score.val))

load_qrels(path, file) == load_qrels_from(path, file, 1, EmptyDict)

(***************************************************************************)
(* sample_keys and the pieces of main                                      *)
(***************************************************************************)
TextLimit == 400

\* what random.sample may return: sample_keys(d, 1) is [] for an empty dict and
\* otherwise a list of one key, any key
sample_keys(d) ==
    IF Len(d.keys) = 0 THEN {<<>>} ELSE {<<d.keys[i]>> : i \in 1..Len(d.keys)}

\* the three paths main builds, relative to data_path
corpus_file == "corpus.jsonl"
queries_file == "queries.jsonl"
qrels_file(sp) == "qrels/" \o sp \o ".tsv"

\* variant: the qrels file is not looked for
missing_files_first_two(files, sp) ==
    SelectSeq(<<corpus_file, queries_file>>, LAMBDA p : p \notin DOMAIN files)

\* missing = [str(p) for p in (corpus_file, queries_file, qrels_file) if not p.exists()]
missing_files(files, sp) ==
    SelectSeq(<<corpus_file, queries_file, qrels_file(sp)>>, LAMBDA p : p \notin DOMAIN files)

\* a printed line: a tag and what follows it
PStr(tag, s) == [tag |-> tag, s |-> s, ids |-> <<>>, set |-> {}, map |-> <<>>]
PList(tag, ids) == [tag |-> tag, s |-> "", ids |-> ids, set |-> {}, map |-> <<>>]
PSet(tag, set) == [tag |-> tag, s |-> "", ids |-> <<>>, set |-> set, map |-> <<>>]
PMap(tag, map) == [tag |-> tag, s |-> "", ids |-> <<>>, set |-> {}, map |-> map]

\* a.get(k1) or a.get(k2) or ... or "": the first truthy value, "" when none is
RECURSIVE or_chain(_, _)
or_chain(rec, keys) ==
    IF Len(keys) = 0 THEN Str("")
    ELSE IF Truthy(Get(rec, Head(keys))) THEN Get(rec, Head(keys))
    ELSE or_chain(rec, Tail(keys))

\* doc.get("text") or doc.get("contents") or doc.get("body") or doc.get("passage") or ""
doc_text(doc) == or_chain(doc, <<"text", "contents", "body", "passage">>)

\* q.get("text") or q.get("question") or q.get("query") or ""
query_text(q) == or_chain(q, <<"text", "question", "query">>)

\* text[:n]: only a string can be sliced (a number raises TypeError)
Sliceable(v) == v.t = "str"
Slice(v, n) == SubSeq(v.s, 1, Min(n, Len(v.s)))

\* the lines the sample-doc loop body prints for document d, and whether it raises
show_doc(c, d) ==
    LET doc == c.map[d]
        title == GetOr(doc, "title", Str(""))
        text == doc_text(doc)
        head == <<PStr("Sample doc id", d), PSet("Fields", DOMAIN doc),
                  PStr("Title", PyStr(title))>>
    IN IF Sliceable(text)
       THEN [lines |-> Append(head, PStr("Text", Slice(text, TextLimit))), raised |-> "none"]
       ELSE [lines |-> head, raised |-> "TypeError"]

\* the lines the sample-query loop body prints for query q
show_query(qs, table, q) ==
    <<PStr("Sample query id", q),
      PStr("Query text", PyStr(query_text(qs.map[q]))),
      PMap("qrels for sample_q",
           IF q \in DOMAIN table.map THEN table.map[q].map ELSE <<>>)>>

\* missing_queries = [q for q in qrels.keys() if q not in queries]
find_missing_queries(table, qs) ==
    SelectSeq(table.keys, LAMBDA q : q \notin DOMAIN qs.map)

\* variant: only the documents of the table's first query are looked up
find_missing_docs_first_query(table, c) ==
    {d \in UNION {DOMAIN table.map[table.keys[i]].map : i \in 1..Min(1, Len(table.keys))} :
        d \notin DOMAIN c.map}

\* for q, docs in qrels.items(): for d in docs.keys(): if d not in corpus: missing_docs.add(d)
find_missing_docs(table, c) ==
    {d \in UNION {DOMAIN table.map[q].map : q \in DOMAIN table.map} : d \notin DOMAIN c.map}

\* the two warnings, each printed only for a non-empty finding
warnings(mq, md) ==
    (IF mq # <<>> THEN <<PList("WARNING queries", mq)>> ELSE <<>>)
    \o (IF md # {} THEN <<PSet("WARNING docs", md)>> ELSE <<>>)

(***************************************************************************)
(* main, one action per step of its body                                   *)
(***************************************************************************)
\* lines 75-88: the existence check
CheckFiles ==
    /\ pc = "main"
    /\ LET missing == missing_files(fs, split) IN
       IF missing # <<>>
       THEN /\ out' = out \o <<PStr("ERROR", "missing expected files")>>
                          \o [i \in 1..Len(missing) |-> PStr("missing", missing[i])]
            /\ exitCode' = 2
            /\ pc' = "done"
       ELSE /\ pc' = "load_corpus"
            /\ UNCHANGED <<out, exitCode>>
    /\ UNCHANGED <<fs, split, ret, loaderCalls, corpus, queries, qrels, docid, qid,
                   missing_queries, missing_docs, err, raised>>

\* lines 94-96: except Exception as e: print("ERROR:", e, file=sys.stderr); return 1
Caught(r) ==
    /\ err' = Append(err, [tag |-> "ERROR", msg |-> r.msg, line |-> r.line, path |-> r.path])
    /\ exitCode' = 1
    /\ pc' = "done"

\* line 91
LoadCorpus ==
    /\ pc = "load_corpus"
    /\ LET r == load_jsonl(corpus_file, fs[corpus_file]) IN
       /\ ret' = r
       /\ IF r.ok THEN /\ corpus' = r.val
                       /\ pc' = "load_queries"
                       /\ UNCHANGED <<err, exitCode>>
                  ELSE /\ Caught(r)
                       /\ UNCHANGED corpus
    /\ loaderCalls' = loaderCalls + 1
    /\ UNCHANGED <<fs, split, queries, qrels, docid, qid, missing_queries, missing_docs,
                   out, raised>>

\* line 92
LoadQueries ==
    /\ pc = "load_queries"
    /\ LET r == load_jsonl(queries_file, fs[queries_file]) IN
       /\ ret' = r
       /\ IF r.ok THEN /\ queries' = r.val
                       /\ pc' = "load_qrels"
                       /\ UNCHANGED <<err, exitCode>>
                  ELSE /\ Caught(r)
                       /\ UNCHANGED queries
    /\ loaderCalls' = loaderCalls + 1
    /\ UNCHANGED <<fs, split, corpus, qrels, docid, qid, missing_queries, missing_docs,
                   out, raised>>

\* line 93
LoadQrels ==
    /\ pc = "load_qrels"
    /\ LET r == load_qrels(qrels_file(split), fs[qrels_file(split)]) IN
       /\ ret' = r
       /\ IF r.ok THEN /\ qrels' = r.val
                       /\ pc' = "print_sizes"
                       /\ UNCHANGED <<err, exitCode>>
                  ELSE /\ Caught(r)
                       /\ UNCHANGED qrels
    /\ loaderCalls' = loaderCalls + 1
    /\ UNCHANGED <<fs, split, corpus, queries, docid, qid, missing_queries, missing_docs,
                   out, raised>>

\* lines 98-100
PrintSizes ==
    /\ pc = "print_sizes"
    /\ out' = out \o <<PStr("corpus size", ToString(Size(corpus))),
                       PStr("queries size", ToString(Size(queries))),
                       PStr("qrels size", ToString(Size(qrels)))>>
    /\ pc' = "sample_doc"
    /\ UNCHANGED <<fs, split, ret, loaderCalls, corpus, queries, qrels, docid, qid,
                   missing_queries, missing_docs, err, exitCode, raised>>

\* lines 103-110: for docid in sample_keys(corpus, 1): ...
SampleDoc ==
    /\ pc = "sample_doc"
    /\ \E ks \in sample_keys(corpus) :
        /\ docid' = ks
        /\ IF ks = <<>>
           THEN /\ pc' = "sample_query"
                /\ UNCHANGED <<out, raised>>
           ELSE LET shown == show_doc(corpus, ks[1]) IN
                /\ out' = out \o shown.lines
                /\ raised' = shown.raised
                /\ pc' = IF shown.raised = "none" THEN "sample_query" ELSE "raised"
    /\ UNCHANGED <<fs, split, ret, loaderCalls, corpus, queries, qrels, qid,
                   missing_queries, missing_docs, err, exitCode>>

\* lines 113-118: for qid in sample_keys(queries, 1): ...
SampleQuery ==
    /\ pc = "sample_query"
    /\ \E ks \in sample_keys(queries) :
        /\ qid' = ks
        /\ out' = IF ks = <<>> THEN out ELSE out \o show_query(queries, qrels, ks[1])
    /\ pc' = "check_refs"
    /\ UNCHANGED <<fs, split, ret, loaderCalls, corpus, queries, qrels, docid,
                   missing_queries, missing_docs, err, exitCode, raised>>

\* lines 121-134: the consistency check, its warnings, the success line, return 0
CheckRefs ==
    /\ pc = "check_refs"
    /\ missing_queries' = find_missing_queries(qrels, queries)
    /\ missing_docs' = find_missing_docs(qrels, corpus)
    /\ out' = out \o warnings(missing_queries', missing_docs')
                  \o <<PStr("Validation completed successfully", "")>>
    /\ exitCode' = 0
    /\ pc' = "done"
    /\ UNCHANGED <<fs, split, ret, loaderCalls, corpus, queries, qrels, docid, qid,
                   err, raised>>

(***************************************************************************)
(* the loaders called on their own                                         *)
(***************************************************************************)
CallLoadJsonl ==
    /\ pc = "call_load_jsonl"
    /\ \E p \in DOMAIN fs : ret' = load_jsonl(p, fs[p])
    /\ loaderCalls' = loaderCalls + 1
    /\ pc' = "returned"
    /\ UNCHANGED <<fs, split, corpus, queries, qrels, docid, qid, missing_queries,
                   missing_docs, out, err, exitCode, raised>>

CallLoadQrels ==
    /\ pc = "call_load_qrels"
    /\ \E p \in DOMAIN fs : ret' = load_qrels(p, fs[p])
    /\ loaderCalls' = loaderCalls + 1
    /\ pc' = "returned"
    /\ UNCHANGED <<fs, split, corpus, queries, qrels, docid, qid, missing_queries,
                   missing_docs, out, err, exitCode, raised>>

(***************************************************************************)
(* Inputs                                                                  *)
(***************************************************************************)
SeqsUpTo(S, n) == UNION {[1..k -> S] : k \in 0..n}

RECURSIVE Rep(_, _)
Rep(c, n) ==
    IF n = 0 THEN ""
    ELSE IF n % 2 = 0 THEN LET half == Rep(c, n \div 2) IN half \o half
    ELSE c \o Rep(c, n - 1)

\* a text longer than the reporter shows
LongText == Rep("x", TextLimit) \o "yz"

Obj(o) == Line("obj", o)

\* the lines a JSONL file is made of when load_jsonl is called on its own
JsonlLines ==
    { Line("empty", <<>>), Line("spaces", <<>>), Line("invalid", <<>>), Line("scalar", <<>>),
      Obj(("_id" :> Str("a")) @@ ("title" :> Str("T")) @@ ("text" :> Str("x"))),
      Obj(("id" :> Str("a")) @@ ("query" :> Str("q"))),
      Obj(("_id" :> Str("b")) @@ ("id" :> Str("a")) @@ ("contents" :> Str(""))),
      Obj(("_id" :> Num(0)) @@ ("text" :> Str("x"))),
      Obj(("_id" :> None) @@ ("id" :> Str("a"))),
      Obj(("id" :> Str(""))),
      Obj(("_id" :> Num(1))),
      Obj(("_id" :> Str("1")) @@ ("body" :> Str("b"))),
      Obj(("text" :> Str("x"))) }

\* the csv records a qrels file is made of when load_qrels is called on its own
QrelsRows ==
    { Row(<<>>, 1),
      Row(<<"q1", "d1", "1">>, 1),
      Row(<<" q1 ", "d1", " 2.0 ">>, 1),
      Row(<<"q1", "d2", "3.7", "x">>, 1),
      Row(<<"q2", "d1", "-3.7">>, 1),
      Row(<<"q3", "d1", "1", "a note on two lines">>, 2),
      Row(<<"q1", "d1">>, 1),
      Row(<<"q1", "d1", "abc">>, 1),
      Row(<<"q1", "d1", "nan">>, 1) }

\* the lines of corpus.jsonl and queries.jsonl and the records of the qrels file
\* in a run of main
CorpusLines ==
    { Obj(("_id" :> Str("d1")) @@ ("title" :> Str("T")) @@ ("text" :> Str("hello"))),
      Obj(("_id" :> Str("d2")) @@ ("text" :> Num(5))),
      Obj(("_id" :> Str("d3")) @@ ("text" :> Str("")) @@ ("contents" :> Str(LongText))),
      Line("invalid", <<>>) }

QueryLines ==
    { Obj(("_id" :> Str("q1")) @@ ("text" :> Str("hi"))),
      Obj(("id" :> Str("q2")) @@ ("text" :> Str("")) @@ ("query" :> Str("qq"))),
      Obj(("text" :> Str("no id"))) }

MainRows ==
    { Row(<<"q1", "d1", "1">>, 1),
      Row(<<"q2", "d9", "2.0">>, 1),
      Row(<<"q1", "d1">>, 1) }

Splits == {"test", "dev"}

\* a file that exists with some content, or does not exist
Present(content) == [present |-> TRUE, content |-> content]
Absent == [present |-> FALSE, content |-> <<>>]
Files(contents) == {Present(c) : c \in contents} \cup {Absent}

\* the dataset directory holding the given files (the qrels of split "test")
Dir(c, q, r) ==
    [p \in {x \in {corpus_file} : c.present} \cup {x \in {queries_file} : q.present}
           \cup {x \in {qrels_file("test")} : r.present} |->
        IF p = corpus_file THEN c.content
        ELSE IF p = queries_file THEN q.content
        ELSE r.content]

Fresh ==
    /\ ret = NoCall
    /\ loaderCalls = 0
    /\ corpus = EmptyDict
    /\ queries = EmptyDict
    /\ qrels = EmptyDict
    /\ docid = <<>>
    /\ qid = <<>>
    /\ missing_queries = <<>>
    /\ missing_docs = {}
    /\ out = <<>>
    /\ err = <<>>
    /\ exitCode = -1
    /\ raised = "none"

(***************************************************************************)
(* Specifications                                                          *)
(***************************************************************************)
\* a run of main(data_path, split)
Init ==
    /\ \E c \in Files(SeqsUpTo(CorpusLines, MaxCorpusLines)),
          q \in Files(SeqsUpTo(QueryLines, MaxQueryLines)),
          r \in Files(SeqsUpTo(MainRows, MaxQrelsRows)) : fs = Dir(c, q, r)
    /\ split \in Splits
    /\ pc = "main"
    /\ Fresh

Next ==
    \/ CheckFiles
    \/ LoadCorpus
    \/ LoadQueries
    \/ LoadQrels
    \/ PrintSizes
    \/ SampleDoc
    \/ SampleQuery
    \/ CheckRefs

Spec == Init /\ [][Next]_vars

\* load_jsonl called on one file
InitJsonl ==
    /\ \E file \in SeqsUpTo(JsonlLines, MaxLines) : fs = (corpus_file :> file)
    /\ split = "test"
    /\ pc = "call_load_jsonl"
    /\ Fresh

NextJsonl == CallLoadJsonl

SpecJsonl == InitJsonl /\ [][NextJsonl]_vars

\* load_qrels called on one file
InitQrels ==
    /\ \E file \in SeqsUpTo(QrelsRows, MaxRows) : fs = (qrels_file("test") :> file)
    /\ split = "test"
    /\ pc = "call_load_qrels"
    /\ Fresh

NextQrels == CallLoadQrels

SpecQrels == InitQrels /\ [][NextQrels]_vars

(***************************************************************************)
(* Claims about main (checked under Spec)                                  *)
(***************************************************************************)
ExpectedPaths == {corpus_file, queries_file, qrels_file(split)}
MissingPaths == {p \in ExpectedPaths : p \notin DOMAIN fs}
AllExist == MissingPaths = {}
Tagged(tag) == {i \in 1..Len(out) : out[i].tag = tag}
PrintedMissing == {out[i].s : i \in Tagged("missing")}
Ended == pc \in {"done", "raised"}

\* the three loads, for a directory that holds the three files
LoadersSucceed ==
    /\ load_jsonl(corpus_file, fs[corpus_file]).ok
    /\ load_jsonl(queries_file, fs[queries_file]).ok
    /\ load_qrels(qrels_file(split), fs[qrels_file(split)]).ok

\* C1: when at least one of corpus.jsonl, queries.jsonl, qrels/<split>.tsv does not
\* exist, main returns 2, prints exactly the missing paths, and has invoked no
\* loader, malformed or not the files that do exist.
C1_MissingFilesExit2 ==
    (pc # "main" /\ ~AllExist) =>
        /\ pc = "done"
        /\ exitCode = 2
        /\ raised = "none"
        /\ PrintedMissing = MissingPaths
        /\ Len(out) = 1 + Cardinality(MissingPaths)
        /\ loaderCalls = 0
        /\ ret = NoCall
        /\ err = <<>>

\* C1 happens: main has returned 2 for a directory that lacks two files and whose
\* corpus.jsonl exists and holds a line that is not JSON.
C1_Witness ==
    /\ pc = "done"
    /\ exitCode = 2
    /\ MissingPaths = {queries_file, qrels_file(split)}
    /\ \E i \in 1..Len(fs[corpus_file]) : fs[corpus_file][i].kind = "invalid"

\* C2: no exception escapes main: it ends by returning 0, 1 or 2, and it returns 1
\* exactly when the three files exist and a loader fails, the error being written
\* to the error stream.
C2_NoExceptionEscapes ==
    /\ raised = "none"
    /\ pc # "raised"
    /\ pc = "done" =>
        /\ exitCode \in {0, 1, 2}
        /\ (exitCode = 1) <=> (AllExist /\ ~LoadersSucceed)
        /\ (exitCode = 1) => Len(err) = 1

\* C3: for every dataset whose three files exist and load without a loader error,
\* main returns 0, whether or not the consistency check found something; a finding
\* only adds a warning line.
C3_FindingsNeverAffectExit ==
    (Ended /\ AllExist /\ LoadersSucceed) =>
        /\ pc = "done"
        /\ exitCode = 0
        /\ (Tagged("WARNING queries") # {}) <=> (missing_queries # <<>>)
        /\ (Tagged("WARNING docs") # {}) <=> (missing_docs # {})

\* position of a key in the iteration order of a dict
KeyPos(d, k) == CHOOSE i \in 1..Len(d.keys) : d.keys[i] = k

\* C8: the consistency check computes missing_queries as exactly the keys of the
\* relevance table that are not keys of queries, each once and in the table's
\* iteration order, and missing_docs as exactly the document ids that occur under
\* any query of the table and are not keys of corpus; it leaves the table, corpus
\* and queries as they were loaded.
C8_ConsistencyCheck ==
    (pc = "done" /\ exitCode = 0) =>
        /\ SeqRange(missing_queries) = {q \in DOMAIN qrels.map : q \notin DOMAIN queries.map}
        /\ \A i, j \in 1..Len(missing_queries) :
               i < j => /\ missing_queries[i] # missing_queries[j]
                        /\ KeyPos(qrels, missing_queries[i]) < KeyPos(qrels, missing_queries[j])
        /\ \A d \in missing_docs :
               /\ d \notin DOMAIN corpus.map
               /\ \E q \in DOMAIN qrels.map : d \in DOMAIN qrels.map[q].map
        /\ \A q \in DOMAIN qrels.map : \A d \in DOMAIN qrels.map[q].map :
               d \notin DOMAIN corpus.map => d \in missing_docs
        /\ corpus = load_jsonl(corpus_file, fs[corpus_file]).val
        /\ queries = load_jsonl(queries_file, fs[queries_file]).val
        /\ qrels = load_qrels(qrels_file(split), fs[qrels_file(split)]).val

\* C8 happens: the check has run on a table of two queries, neither of them in
\* queries, with one referenced document in corpus and one not.
C8_Witness ==
    /\ pc = "done"
    /\ exitCode = 0
    /\ Len(missing_queries) = 2
    /\ missing_docs = {"d9"}
    /\ "d1" \in DOMAIN corpus.map
    /\ qrels.keys = <<"q1", "q2">>

\* what a run shows besides the samples, from the sampling on, when sample_keys
\* returns kd for the corpus and kq for the queries
OutcomeOf(kd, kq) ==
    IF kd # <<>> /\ show_doc(corpus, kd[1]).raised # "none"
    THEN [exit |-> -1, raised |-> show_doc(corpus, kd[1]).raised, warned |-> <<>>]
    ELSE [exit |-> 0, raised |-> "none",
          warned |-> warnings(find_missing_queries(qrels, queries),
                              find_missing_docs(qrels, corpus))]

\* C9: two runs on the same dataset that differ only in what sample_keys returns
\* end with the same exit code and the same warnings (the sizes are printed before
\* the sampling).
C9_SamplingConfined ==
    pc = "sample_doc" =>
        \A kd1, kd2 \in sample_keys(corpus) : \A kq1, kq2 \in sample_keys(queries) :
            OutcomeOf(kd1, kq1) = OutcomeOf(kd2, kq2)

\* the value of the first field of keys that is present in rec, "" when none is
RECURSIVE FirstPresent(_, _)
FirstPresent(rec, keys) ==
    IF Len(keys) = 0 THEN Str("")
    ELSE IF Head(keys) \in DOMAIN rec THEN rec[Head(keys)]
    ELSE FirstPresent(rec, Tail(keys))

\* C10: for the sampled document the reporter prints the title ("" if absent) and
\* the first 400 characters of the first field present among text, contents, body,
\* passage; for the sampled query it prints the first field present among text,
\* question, query, and the table's entries for the query id ({} if it has none).
\* Stated for the runs in which the sample was displayed without an exception.
C10_ReporterShowsFirstPresentField ==
    /\ (docid # <<>> /\ raised = "none") =>
        LET doc == corpus.map[docid[1]]
            text == FirstPresent(doc, <<"text", "contents", "body", "passage">>)
        IN /\ \E i \in Tagged("Title") : out[i].s = PyStr(GetOr(doc, "title", Str("")))
           /\ \E i \in Tagged("Text") :
                  out[i].s = SubSeq(PyStr(text), 1, Min(TextLimit, Len(PyStr(text))))
    /\ qid # <<>> =>
        LET q == queries.map[qid[1]]
            text == FirstPresent(q, <<"text", "question", "query">>)
        IN /\ \E i \in Tagged("Query text") : out[i].s = PyStr(text)
           /\ \E i \in Tagged("qrels for sample_q") :
                  out[i].map = IF qid[1] \in DOMAIN qrels.map THEN qrels.map[qid[1]].map
                               ELSE <<>>

(***************************************************************************)
(* Claims about load_jsonl (checked under SpecJsonl)                       *)
(***************************************************************************)
TheJsonl == fs[corpus_file]
NonBlank == {i \in 1..Len(TheJsonl) : ~IsBlank(TheJsonl[i])}
HasIdField(line) == line.kind = "obj" /\ \E j \in 1..Len(id_keys) : id_keys[j] \in DOMAIN line.obj

\* a line the claims call malformed: not JSON, or an object with neither _id nor id
Malformed == {i \in NonBlank : TheJsonl[i].kind = "invalid"
                               \/ (TheJsonl[i].kind = "obj" /\ ~HasIdField(TheJsonl[i]))}
Least(S) == CHOOSE i \in S : \A j \in S : i <= j
Greatest(S) == CHOOSE i \in S : \A j \in S : j <= i

\* C4: load_jsonl raises at the first non-blank line that is not valid JSON or is
\* an object with none of the identifier fields, returning no partial mapping and
\* reporting the path and the 1-based physical number of that line (blank lines
\* before it counted); blank lines never cause an error. Stated for the files
\* whose non-blank lines are JSON objects or not JSON at all, no identifier being
\* the empty string.
C4_FirstMalformedLineReported ==
    (/\ pc = "returned"
     /\ \A i \in NonBlank :
            /\ TheJsonl[i].kind \in {"invalid", "obj"}
            /\ \A j \in 1..Len(id_keys) : Get(TheJsonl[i].obj, id_keys[j]) # Str("")) =>
        /\ Malformed # {} =>
            /\ ~ret.ok
            /\ ret.val = EmptyDict
            /\ ret.path = corpus_file
            /\ ret.line = Least(Malformed)
        /\ NonBlank = {} => ret.ok

\* the identifier the claims give a line: the value of _id if present, else of id
ClaimedId(obj) == IF "_id" \in DOMAIN obj THEN obj["_id"] ELSE obj["id"]
ClaimedKey(i) == PyStr(ClaimedId(TheJsonl[i].obj))

\* C5: for a file whose non-blank lines are all objects with _id or id, load_jsonl
\* succeeds; the keys are exactly the string forms of the lines' identifiers (_id
\* before id), each key maps to the Record of the last line that produced it, and
\* the size is the number of distinct ids. Stated for the files whose identifiers
\* have a non-empty string form, as the data model requires of a Record's key.
C5_WellFormedFileLoads ==
    (/\ pc = "returned"
     /\ \A i \in NonBlank : HasIdField(TheJsonl[i]) /\ ClaimedKey(i) # "") =>
        /\ ret.ok
        /\ DOMAIN ret.val.map = {ClaimedKey(i) : i \in NonBlank}
        /\ Size(ret.val) = Cardinality({ClaimedKey(i) : i \in NonBlank})
        /\ \A k \in DOMAIN ret.val.map :
               ret.val.map[k] = TheJsonl[Greatest({i \in NonBlank : ClaimedKey(i) = k})].obj

\* C6: every Record load_jsonl builds holds every key/value pair of its source
\* object and no key the source lacks (a recognized text field is never defaulted):
\* as a mapping it equals the source object.
C6_RecordEqualsSource ==
    (pc = "returned" /\ ret.ok) =>
        \A k \in DOMAIN ret.val.map :
            \E i \in NonBlank :
                LET src == TheJsonl[i].obj IN
                /\ TheJsonl[i].kind = "obj"
                /\ \A f \in DOMAIN src : f \in DOMAIN ret.val.map[k] /\ ret.val.map[k][f] = src[f]
                /\ \A f \in DOMAIN ret.val.map[k] : f \in DOMAIN src
                /\ ret.val.map[k] = src

\* C6 happens: a load has returned a Record whose source has a text field, lacks
\* other text fields and has a field that is no text field.
C6_Witness ==
    /\ pc = "returned"
    /\ ret.ok
    /\ \E k \in DOMAIN ret.val.map :
        /\ "text" \in DOMAIN ret.val.map[k]
        /\ "title" \in DOMAIN ret.val.map[k]
        /\ "contents" \notin DOMAIN ret.val.map[k]

(***************************************************************************)
(* Claims about load_qrels (checked under SpecQrels)                       *)
(***************************************************************************)
TheQrels == fs[qrels_file("test")]

\* the physical line on which the i-th record of the file starts
RECURSIVE FirstLineOf(_)
FirstLineOf(i) == IF i = 1 THEN 1 ELSE FirstLineOf(i - 1) + TheQrels[i - 1].nlines

\* the scores of the claim: a number is read as a float and truncated
ClaimedScore == ("1" :> 1) @@ ("2.0" :> 2) @@ ("3.7" :> 3) @@ ("-3.7" :> (0 - 3))
NonEmptyRows == {i \in 1..Len(TheQrels) : Len(TheQrels[i].cols) > 0}
Offending == {i \in NonEmptyRows : \/ Len(TheQrels[i].cols) < 3
                                   \/ Strip(TheQrels[i].cols[3]) \notin DOMAIN ClaimedScore}
RowsOf(q, d) == {i \in NonEmptyRows : Strip(TheQrels[i].cols[1]) = q /\ Strip(TheQrels[i].cols[2]) = d}

\* C7: load_qrels goes through the rows in file order; the first non-empty row with
\* fewer than 3 fields or a third field that is no number raises an error naming
\* the file and the row's 1-based line number; otherwise every row sets
\* table[trim(col0)][trim(col1)] to the truncated score, later rows overwriting
\* earlier ones and columns after the third ignored.
C7_QrelsTable ==
    pc = "returned" =>
        IF Offending # {}
        THEN /\ ~ret.ok
             /\ ret.path = qrels_file("test")
             /\ ret.line = FirstLineOf(Least(Offending))
        ELSE /\ ret.ok
             /\ \A i \in NonEmptyRows :
                    LET q == Strip(TheQrels[i].cols[1])
                        d == Strip(TheQrels[i].cols[2])
                    IN /\ q \in DOMAIN ret.val.map
                       /\ d \in DOMAIN ret.val.map[q].map
                       /\ ret.val.map[q].map[d] =
                              ClaimedScore[Strip(TheQrels[Greatest(RowsOf(q, d))].cols[3])]
             /\ \A q \in DOMAIN ret.val.map : \A d \in DOMAIN ret.val.map[q].map :
                    RowsOf(q, d) # {}

====
